---- MODULE Spec2Model ----
(***************************************************************************)
(* A model of github.com/m5lapp/go-service-toolkit.                        *)
(*                                                                         *)
(* Part 1: webapp.RateLimit (src/webapp/middleware.go), the per-client     *)
(* rate-limiting middleware: a mutex-guarded map from the client's real IP *)
(* to a token-bucket limiter and a last-seen time, a handler closure run   *)
(* by one goroutine per request, and a goroutine that sweeps stale entries *)
(* once a minute.                                                          *)
(*                                                                         *)
(* Time is counted in ticks of one minute.  A time stamp (client.lastSeen, *)
(* the limiter's last) is kept as its age: the number of ticks since the   *)
(* time it holds, which time.Since and the limiter's elapsed time read.    *)
(* Writing time.Now() is writing age 0, and a tick ages every stamp.  Ages *)
(* stop growing where more age changes nothing (past the staleness window, *)
(* past a full refill), so the clock itself needs no bound.                *)
(*                                                                         *)
(* The request rate cfg.RPS is kept as its period: the whole number of     *)
(* ticks one token takes to refill (RPS = 1/Period tokens per tick, always *)
(* > 0).  A bucket's tokens are counted in units of 1/Period token, which  *)
(* makes the limiter's arithmetic exact integer arithmetic.                *)
(*                                                                         *)
(* Strings that the code takes apart (the request's RemoteAddr) are tuples *)
(* of one-character strings.                                               *)
(***************************************************************************)
EXTENDS Integers, Sequences, FiniteSets, TLC

\* ------------------------------------------------------------------ bounds
\* Number of requests (handler goroutines) of one run.
MaxReqs == 3
\* Largest cfg.Burst, and largest period of cfg.RPS in ticks.
MaxBurst == 2
MaxPeriod == 2
\* Longest string, in runes, that is validated.
MaxStrLen == 2
\* Number of documents written to one response.
MaxWrites == 2
\* Last day, counted from the zero time, of the dates used.
MaxDay == 3
\* The calls of WebApp.Background.
MaxTasks == 2

\* ------------------------------------------------------- program constants
\* time.Sleep(time.Minute): the sweep's interval, in ticks.
SweepInterval == 1
\* 3*time.Minute: the staleness window, in ticks.
Staleness == 3
\* http.StatusTooManyRequests and http.StatusInternalServerError.
StatusTooManyRequests == 429
StatusInternalServerError == 500

\* ------------------------------------------------------------------ inputs
\* cfg.Burst and the period of cfg.RPS that Init chooses from.
Bursts == 0..MaxBurst
Periods == 1..MaxPeriod

\* RemoteAddr values of the requests: a host:port and two strings without a
\* colon.
Addrs ==
    { <<"a", ":", "p">>, <<"x">>, <<"y">> }

Reqs == 1..MaxReqs

\* The tasks given to Background, in the order of the calls.
Tasks == 1..MaxTasks

VARIABLES
    cfg,        \* config.Limiter: [Active, Burst, Period]
    mu,         \* sync.Mutex: Free, or who holds it
    clients,    \* map[string]*client: key -> [limiter, lastSeen]
    sweep,      \* the sweep goroutine: [pc, left, todo, snap]
    pc,         \* pc[r]: where request r's handler stands
    raddr,      \* raddr[r]: r.RemoteAddr
    ip,         \* ip[r]: the handler's local ip
    found,      \* found[r]: the handler's local found
    ok,         \* ok[r]: what limiter.Allow() returned
    w,          \* w[r]: the http.ResponseWriter of request r
    nextCalls,  \* nextCalls[r]: calls of next.ServeHTTP for request r
    run,        \* run[k]: [open, outs], the Allow results of key k's entry while no
                \* time has passed since its first use
    rej,        \* rej[k]: the age of key k's last Allow if it was refused, else -1
    waited,     \* waited[r]: a refusal of r's key, 1/RPS or more old, was the
                \* key's last Allow when r called Allow
    streak,     \* streak[k]: the requests of key k admitted since the last tick
    gap,        \* gap[k]: [age, far], the age of the arrival of key k's latest
                \* request (Staleness + 1 for any greater age, and for none),
                \* and whether a request of key k that has not yet set lastSeen
                \* arrived more than Staleness after the one before it
    shadow      \* shadow[k]: the limiter key k would have, were no entry ever
                \* removed from the map

\* Part 2, the library functions (validator, jsonz, RecoverPanic): a caller
\* that applies them one call at a time.
VARIABLES
    errors,     \* Validator.Errors of the caller's Validator: key -> message
    resp,       \* the http.ResponseWriter of the caller's request
    date,       \* the caller's DateOnly: the time.Time it embeds
    last        \* the last call: its name, its arguments, the state it found
                \* and what it returned

\* Part 3, WebApp.Serve and WebApp.Background: the goroutine that runs Serve,
\* the goroutine that Serve starts to catch the signals, and the goroutines
\* that Background starts.
VARIABLES
    serve,          \* Serve itself: [pc, ret], where it stands and what it returned
    sigpc,          \* where the signal-handling goroutine stands
    quit,           \* the number of signals in the buffered channel quit
    srv,            \* the http.Server: serving, draining (Shutdown under way),
                    \* drained (Shutdown returned nil) or timedout (it returned
                    \* the error of its context)
    Wg,             \* the counter of app.Wg
    tasks,          \* tasks[t]: the t-th task given to Background
    shutdownError   \* the unbuffered channel: [sends, recvs], the sends begun and
                    \* the values received

rlvars ==
    <<cfg, mu, clients, sweep, pc, raddr, ip, found, ok, w, nextCalls, run, rej, waited,
      streak, gap, shadow>>

libvars == <<errors, resp, date, last>>

srvvars == <<serve, sigpc, quit, srv, Wg, tasks, shutdownError>>

vars == <<rlvars, libvars, srvvars>>

\* The states of the mutex mu: unlocked, locked by the sweep goroutine,
\* locked by the handler of request r.
Free == <<"free">>
BySweep == <<"sweep">>
ByReq(r) == <<"req", r>>

\* ----------------------------------------------------------------- helpers
Min(a, b) == IF a < b THEN a ELSE b

Range(s) == { s[i] : i \in 1..Len(s) }

EmptyMap == [ x \in {} |-> 0 ]

\* delete(m, k) of a Go map.
MapDelete(m, k) == [ x \in (DOMAIN m) \ {k} |-> m[x] ]

\* m[k] = v of a Go map.
MapPut(m, k, v) == [ x \in (DOMAIN m) \cup {k} |-> IF x = k THEN v ELSE m[x] ]

\* ------------------------------------------------------------ time stamps
\* The age of every lastSeen older than the staleness window and a sweep
\* interval, the zero time.Time of a client literal that leaves lastSeen
\* unset among them.
LongAgo == Staleness + SweepInterval + 1

\* The age at which a limiter of configuration c has refilled whatever it
\* held, the zero time of a limiter not yet used included.
FullAge(c) == c.Burst * c.Period

\* ------------------------------------------------- realip.FromRequest(r)
\* Index of the last ":" of s (0 when there is none).
LastColon(s) ==
    LET I == { i \in 1..Len(s) : s[i] = ":" }
    IN  IF I = {} THEN 0 ELSE CHOOSE i \in I : \A j \in I : j <= i

\* net.SplitHostPort: the host before the last colon; an address whose host
\* part still holds a colon is an error ("too many colons") and gives "".
SplitHost(s) ==
    LET h == SubSeq(s, 1, LastColon(s) - 1)
    IN  IF ":" \in Range(h) THEN <<>> ELSE h

\* The request carries no X-Real-Ip and no X-Forwarded-For header: the key
\* is the RemoteAddr without its port, or the RemoteAddr as it is when it
\* holds no colon.
FromRequest(addr) ==
    IF ":" \in Range(addr) THEN SplitHost(addr) ELSE addr

Keys == { FromRequest(a) : a \in Addrs }

\* ------------------------------------------------------- rate.Limiter
\* A limiter is [tokens, last]: tokens in units of 1/Period token, last the
\* age of the time of the last Allow that took a token.
\* rate.NewLimiter(rate.Limit(cfg.RPS), cfg.Burst): a full bucket.
NewLimiter(c) ==
    [tokens |-> c.Burst * c.Period, last |-> FullAge(c)]

AdvanceNoRefill(c, lim) == Min(c.Burst * c.Period, lim.tokens)

AdvanceNoCap(c, lim) == lim.tokens + lim.last

\* Limiter.advance: the tokens now, one unit per tick since last, capped at
\* the burst.
Advance(c, lim) == Min(c.Burst * c.Period, lim.tokens + lim.last)

AllowOffByOne(c, lim) ==
    LET tokens == Advance(c, lim)
    IN  IF tokens >= 0 /\ c.Burst >= 1
        THEN [ok |-> TRUE, lim |-> [tokens |-> tokens - c.Period, last |-> 0]]
        ELSE [ok |-> FALSE, lim |-> lim]

\* Limiter.Allow(): takes one token (Period units) when the bucket holds one
\* and the burst is at least 1; the limiter changes only then.
Allow(c, lim) ==
    LET tokens == Advance(c, lim) - c.Period
    IN  IF tokens >= 0 /\ c.Burst >= 1
        THEN [ok |-> TRUE, lim |-> [tokens |-> tokens, last |-> 0]]
        ELSE [ok |-> FALSE, lim |-> lim]

\* ------------------------------------------- http.ResponseWriter, jsonz
\* A response nothing has been written to.
NewResponse == [header |-> EmptyMap, status |-> 0, body |-> <<>>]

\* ResponseWriter.WriteHeader: the first status written stands.
WriteHeader(rw, status) ==
    IF rw.status # 0 THEN rw ELSE [rw EXCEPT !.status = status]

\* ResponseWriter.Write: writes status 200 first when none was written.
Write(rw, b) ==
    [WriteHeader(rw, 200) EXCEPT !.body = Append(@, b)]

\* A value that json.MarshalIndent returns an error for (a channel, a
\* function, a NaN).
Unmarshalable == [chan |-> TRUE]

RECURSIVE Marshals(_)
\* json.MarshalIndent(data, "", "\t") returns no error: data is no such value
\* and, being a JSend payload, holds none in its Data field.
Marshals(data) ==
    IF data = Unmarshalable THEN FALSE
    ELSE IF "data" \in DOMAIN data THEN Marshals(data.data)
    ELSE TRUE

\* jsonz.WriteJSON with nil headers, as all callers in the repository pass:
\* the error of json.MarshalIndent with nothing written, or the header, the
\* status and the document written.  The document is kept as the value whose
\* JSON text it is.
WriteJSON(rw, status, data) ==
    IF ~Marshals(data)
    THEN [err |-> TRUE, w |-> rw]
    ELSE LET h == [rw EXCEPT !.header = MapPut(@, "Content-Type", "application/json")]
         IN  [err |-> FALSE, w |-> Write(WriteHeader(h, status), data)]

\* jsonz.NewJSendSuccess
NewJSendSuccess(data) == [status |-> "success", data |-> data]

\* jsonz.NewJSendError
NewJSendError(message, code, data) ==
    [status |-> "error", message |-> message, code |-> code, data |-> data]

WriteJSendSuccessAnyStatus(rw, status, data) ==
    WriteJSON(rw, status, NewJSendSuccess(data))

\* jsonz.WriteJSendSuccess
WriteJSendSuccess(rw, status, data) ==
    IF status < 200 \/ status > 299
    THEN [err |-> TRUE, w |-> rw]
    ELSE WriteJSON(rw, status, NewJSendSuccess(data))

\* jsonz.WriteJSendError
WriteJSendError(rw, status, message, code, data) ==
    IF status < 500 \/ status > 599
    THEN [err |-> TRUE, w |-> rw]
    ELSE WriteJSON(rw, status, NewJSendError(message, code, data))

\* jsonz.NewJSendFail: Code and Message are empty and omitted.
NewJSendFail(data) == [status |-> "fail", data |-> data]

\* jsonz.WriteJSendFail: an error and nothing written for a status outside
\* 400..499.
WriteJSendFail(rw, status, data) ==
    IF status < 400 \/ status > 499
    THEN [err |-> TRUE, w |-> rw]
    ELSE WriteJSON(rw, status, NewJSendFail(data))

\* WebApp.FailResponse: [w, logged], logged being whether logError ran.
FailResponse(rw, status, data) ==
    LET res == WriteJSendFail(rw, status, data)
    IN  IF res.err
        THEN [w |-> WriteHeader(res.w, StatusInternalServerError), logged |-> TRUE]
        ELSE [w |-> res.w, logged |-> FALSE]

RateLimitData ==
    [error   |-> "Rate limit exceeded",
     details |-> "Large numbers of requests from the same IP address are limited over time",
     action  |-> "Wait a while and then try again, or send fewer requests"]

RateLimitExceededResponseAsServerError(rw) ==
    FailResponse(rw, StatusInternalServerError, RateLimitData)

\* WebApp.RateLimitExceededResponse.
RateLimitExceededResponse(rw) ==
    FailResponse(rw, StatusTooManyRequests, RateLimitData)

\* --------------------------------------------------------------- history
\* run[k] while key k has no entry, or time has passed since the entry's
\* first Allow.
Closed == [open |-> FALSE, outs |-> <<>>]

\* ---------------------------------------------------------------- Init
\* RateLimit has returned the handler and started the sweep goroutine, which
\* is in its first time.Sleep; no request has arrived.
RateLimitStart ==
    /\ mu = Free
    /\ clients = EmptyMap
    /\ sweep = [pc |-> "sleep", left |-> SweepInterval, todo |-> {}, snap |-> EmptyMap]
    /\ pc = [r \in Reqs |-> "new"]
    /\ raddr = [r \in Reqs |-> <<>>]
    /\ ip = [r \in Reqs |-> <<>>]
    /\ found = [r \in Reqs |-> FALSE]
    /\ ok = [r \in Reqs |-> FALSE]
    /\ w = [r \in Reqs |-> NewResponse]
    /\ nextCalls = [r \in Reqs |-> 0]
    /\ run = [k \in Keys |-> Closed]
    /\ rej = [k \in Keys |-> -1]
    /\ waited = [r \in Reqs |-> FALSE]
    /\ streak = [k \in Keys |-> 0]
    /\ gap = [k \in Keys |-> [age |-> Staleness + 1, far |-> FALSE]]
    /\ shadow = [k \in Keys |-> NewLimiter(cfg)]

\* The same, for every configuration of the limiter within the bounds.
InitRateLimit ==
    /\ cfg \in [Active : BOOLEAN, Burst : Bursts, Period : Periods]
    /\ RateLimitStart

\* The zero time.Time, which a DateOnly{} embeds: a time is the day it falls
\* on and the second of that day.
ZeroTime == [day |-> 0, sec |-> 0]

\* No call of a library function yet: a new Validator and a response to which
\* nothing has been written.
NoCall == [op |-> "none"]

InitLib ==
    /\ errors = EmptyMap
    /\ resp = NewResponse
    /\ date = ZeroTime
    /\ last = NoCall

\* Serve has been called: it has started the signal-handling goroutine and
\* is about to call srv.ListenAndServe; no task has been given to Background
\* and app.Wg is the new WaitGroup of webapp.New.
NoTask ==
    [st |-> "idle", how |-> "none", nilIsError |-> FALSE, logged |-> FALSE,
     propagated |-> FALSE, dones |-> 0]

InitServe ==
    /\ serve = [pc |-> "listen", ret |-> "none"]
    /\ sigpc = "notify"
    /\ quit = 0
    /\ srv = "serving"
    /\ Wg = 0
    /\ tasks = [t \in Tasks |-> NoTask]
    /\ shutdownError = [sends |-> 0, recvs |-> 0]

Init == InitRateLimit /\ InitLib /\ InitServe

\* ------------------------------------------------------------- the clock
\* A client a tick older.
AgeClient(c, cl) ==
    [limiter  |-> [cl.limiter EXCEPT !.last = Min(FullAge(c), @ + 1)],
     lastSeen |-> Min(LongAgo, cl.lastSeen + 1)]

\* One minute passes: every time stamp is a tick older and a running
\* time.Sleep has a minute less left.  Getting the mutex and the locked
\* section take far less than a minute: the clock does not advance while the
\* mutex is held or a handler is about to take it.  Downstream handlers and
\* response writes may take minutes.
Tick ==
    /\ mu = Free
    /\ \A r \in Reqs : pc[r] # "lock"
    /\ clients' = [k \in DOMAIN clients |-> AgeClient(cfg, clients[k])]
    /\ sweep' = [sweep EXCEPT !.left = IF @ > 0 THEN @ - 1 ELSE 0]
    /\ run' = [k \in Keys |-> IF run[k].outs # <<>> THEN Closed ELSE run[k]]
    /\ streak' = [k \in Keys |-> 0]
    /\ gap' = [k \in Keys |-> [gap[k] EXCEPT !.age = Min(Staleness + 1, @ + 1)]]
    /\ shadow' = [k \in Keys |-> [shadow[k] EXCEPT !.last = Min(FullAge(cfg), @ + 1)]]
    /\ rej' = [k \in Keys |-> IF rej[k] < 0 THEN rej[k] ELSE Min(cfg.Period, rej[k] + 1)]
    /\ UNCHANGED <<cfg, mu, pc, raddr, ip, found, ok, w, nextCalls, waited, libvars, srvvars>>

\* ----------------------------------------------------- the request handler
\* What is known of the arrivals of key k's requests once one more has
\* arrived: it is the latest, and it is far from the one before it when that
\* one is more than Staleness old.  The entry is as fresh as this request
\* once a request of the key has set lastSeen (Seen).
Arrival(g, k) ==
    [age |-> 0,
     far |-> g.far \/ (g.age > Staleness /\ \E q \in Reqs : pc[q] # "new" /\ ip[q] = k)]

ArriveAlwaysLimited(r, a) ==
    /\ pc[r] = "new"
    /\ \A q \in Reqs : q < r => pc[q] # "new"
    /\ raddr' = [raddr EXCEPT ![r] = a]
    /\ ip' = [ip EXCEPT ![r] = FromRequest(a)]
    /\ pc' = [pc EXCEPT ![r] = "lock"]
    /\ gap' = [gap EXCEPT ![FromRequest(a)] = Arrival(@, FromRequest(a))]
    /\ UNCHANGED <<cfg, mu, clients, sweep, found, ok, w, nextCalls, run, rej, waited, streak, shadow, libvars, srvvars>>

\* The server calls the handler for request r, which came from address a
\* (requests are numbered in their order of arrival): if cfg.Active, ip :=
\* realip.FromRequest(r) and on to mu.Lock(); otherwise on to next.
Arrive(r, a) ==
    /\ pc[r] = "new"
    /\ \A q \in Reqs : q < r => pc[q] # "new"
    /\ raddr' = [raddr EXCEPT ![r] = a]
    /\ IF cfg.Active
       THEN /\ ip' = [ip EXCEPT ![r] = FromRequest(a)]
            /\ pc' = [pc EXCEPT ![r] = "lock"]
            /\ gap' = [gap EXCEPT ![FromRequest(a)] = Arrival(@, FromRequest(a))]
       ELSE /\ pc' = [pc EXCEPT ![r] = "next"]
            /\ UNCHANGED <<ip, gap>>
    /\ UNCHANGED <<cfg, mu, clients, sweep, found, ok, w, nextCalls, run, rej, waited, streak, shadow, libvars, srvvars>>

LockNoWait(r) ==
    /\ pc[r] = "lock"
    /\ pc' = [pc EXCEPT ![r] = "lookup"]
    /\ UNCHANGED <<cfg, mu, clients, sweep, raddr, ip, found, ok, w, nextCalls, run, rej, waited, streak, gap, shadow, libvars, srvvars>>

\* mu.Lock() of the handler.
Lock(r) ==
    /\ pc[r] = "lock"
    /\ mu = Free
    /\ mu' = ByReq(r)
    /\ pc' = [pc EXCEPT ![r] = "lookup"]
    /\ UNCHANGED <<cfg, clients, sweep, raddr, ip, found, ok, w, nextCalls, run, rej, waited, streak, gap, shadow, libvars, srvvars>>

LookupNeverFound(r) ==
    /\ pc[r] = "lookup"
    /\ found' = [found EXCEPT ![r] = FALSE]
    /\ pc' = [pc EXCEPT ![r] = "create"]
    /\ UNCHANGED <<cfg, mu, clients, sweep, raddr, ip, ok, w, nextCalls, run, rej, waited, streak, gap, shadow, libvars, srvvars>>

\* _, found := clients[ip]
Lookup(r) ==
    /\ pc[r] = "lookup"
    /\ found' = [found EXCEPT ![r] = ip[r] \in DOMAIN clients]
    /\ pc' = [pc EXCEPT ![r] = IF ip[r] \in DOMAIN clients THEN "seen" ELSE "create"]
    /\ UNCHANGED <<cfg, mu, clients, sweep, raddr, ip, ok, w, nextCalls, run, rej, waited, streak, gap, shadow, libvars, srvvars>>

CreateInNewMap(r) ==
    /\ pc[r] = "create"
    /\ clients' = MapPut(EmptyMap, ip[r], [limiter |-> NewLimiter(cfg), lastSeen |-> LongAgo])
    /\ run' = [run EXCEPT ![ip[r]] = IF @.open THEN @ ELSE [open |-> TRUE, outs |-> <<>>]]
    /\ pc' = [pc EXCEPT ![r] = "seen"]
    /\ UNCHANGED <<cfg, mu, sweep, raddr, ip, found, ok, w, nextCalls, rej, waited, streak, gap, shadow, libvars, srvvars>>

\* clients[ip] = &client{limiter: rate.NewLimiter(r, b)}
Create(r) ==
    /\ pc[r] = "create"
    /\ clients' = MapPut(clients, ip[r], [limiter |-> NewLimiter(cfg), lastSeen |-> LongAgo])
    /\ run' = [run EXCEPT ![ip[r]] = IF @.open THEN @ ELSE [open |-> TRUE, outs |-> <<>>]]
    /\ pc' = [pc EXCEPT ![r] = "seen"]
    /\ UNCHANGED <<cfg, mu, sweep, raddr, ip, found, ok, w, nextCalls, rej, waited, streak, gap, shadow, libvars, srvvars>>

SetLastSeenAll(cl, k) == [ x \in DOMAIN cl |-> [cl[x] EXCEPT !.lastSeen = 0] ]

\* clients[ip].lastSeen = time.Now()
SetLastSeen(cl, k) == [cl EXCEPT ![k].lastSeen = 0]

SeenIfCreated(r) ==
    /\ pc[r] = "seen"
    /\ IF ip[r] \in DOMAIN clients
       THEN /\ clients' = IF found[r] THEN clients ELSE SetLastSeen(clients, ip[r])
            /\ gap' = [gap EXCEPT ![ip[r]].far = FALSE]
            /\ pc' = [pc EXCEPT ![r] = "allow"]
       ELSE /\ pc' = [pc EXCEPT ![r] = "panic"]
            /\ UNCHANGED <<clients, gap>>
    /\ UNCHANGED <<cfg, mu, sweep, raddr, ip, found, ok, w, nextCalls, run, rej, waited, streak, shadow, libvars, srvvars>>

\* clients[ip].lastSeen = time.Now(); with no entry under ip, clients[ip] is
\* nil and the assignment panics.
Seen(r) ==
    /\ pc[r] = "seen"
    /\ IF ip[r] \in DOMAIN clients
       THEN /\ clients' = SetLastSeen(clients, ip[r])
            /\ gap' = [gap EXCEPT ![ip[r]].far = FALSE]
            /\ pc' = [pc EXCEPT ![r] = "allow"]
       ELSE /\ pc' = [pc EXCEPT ![r] = "panic"]
            /\ UNCHANGED <<clients, gap>>
    /\ UNCHANGED <<cfg, mu, sweep, raddr, ip, found, ok, w, nextCalls, run, rej, waited, streak, shadow, libvars, srvvars>>

\* clients[ip].limiter.Allow(), which reads the clock itself.
TryAllow(r) ==
    /\ pc[r] = "allow"
    /\ IF ip[r] \in DOMAIN clients
       THEN LET res == Allow(cfg, clients[ip[r]].limiter)
            IN  /\ clients' = [clients EXCEPT ![ip[r]].limiter = res.lim]
                /\ ok' = [ok EXCEPT ![r] = res.ok]
                /\ run' = [run EXCEPT ![ip[r]] =
                             IF @.open THEN [@ EXCEPT !.outs = Append(@, res.ok)] ELSE @]
                /\ streak' = [streak EXCEPT ![ip[r]] = IF res.ok THEN @ + 1 ELSE @]
                /\ shadow' = [shadow EXCEPT ![ip[r]] = Allow(cfg, @).lim]
                /\ rej' = [rej EXCEPT ![ip[r]] = IF res.ok THEN -1 ELSE 0]
                /\ waited' = [waited EXCEPT ![r] = rej[ip[r]] >= cfg.Period]
                /\ pc' = [pc EXCEPT ![r] = IF res.ok THEN "unlockA" ELSE "unlockR"]
       ELSE /\ pc' = [pc EXCEPT ![r] = "panic"]
            /\ UNCHANGED <<clients, ok, run, rej, waited, streak, shadow>>
    /\ UNCHANGED <<cfg, mu, sweep, raddr, ip, found, w, nextCalls, gap, libvars, srvvars>>

UnlockRejectMissing(r) ==
    /\ pc[r] = "unlockR"
    /\ pc' = [pc EXCEPT ![r] = "respond"]
    /\ UNCHANGED <<cfg, mu, clients, sweep, raddr, ip, found, ok, w, nextCalls, run, rej, waited, streak, gap, shadow, libvars, srvvars>>

\* mu.Unlock() of the reject path, before the response is written.
UnlockReject(r) ==
    /\ pc[r] = "unlockR"
    /\ mu' = Free
    /\ pc' = [pc EXCEPT ![r] = "respond"]
    /\ UNCHANGED <<cfg, clients, sweep, raddr, ip, found, ok, w, nextCalls, run, rej, waited, streak, gap, shadow, libvars, srvvars>>

UnlockAdmitDeferred(r) ==
    /\ pc[r] = "unlockA"
    /\ pc' = [pc EXCEPT ![r] = "next"]
    /\ UNCHANGED <<cfg, mu, clients, sweep, raddr, ip, found, ok, w, nextCalls, run, rej, waited, streak, gap, shadow, libvars, srvvars>>

\* mu.Unlock() of the admit path, before next is called.
UnlockAdmit(r) ==
    /\ pc[r] = "unlockA"
    /\ mu' = Free
    /\ pc' = [pc EXCEPT ![r] = "next"]
    /\ UNCHANGED <<cfg, clients, sweep, raddr, ip, found, ok, w, nextCalls, run, rej, waited, streak, gap, shadow, libvars, srvvars>>

\* app.RateLimitExceededResponse(w, r); return
Respond(r) ==
    /\ pc[r] = "respond"
    /\ w' = [w EXCEPT ![r] = RateLimitExceededResponse(@).w]
    /\ pc' = [pc EXCEPT ![r] = "done"]
    /\ UNCHANGED <<cfg, mu, clients, sweep, raddr, ip, found, ok, nextCalls, run, rej, waited, streak, gap, shadow, libvars, srvvars>>

\* next.ServeHTTP(w, r), and the handler returns.
ServeNext(r) ==
    /\ pc[r] = "next"
    /\ nextCalls' = [nextCalls EXCEPT ![r] = @ + 1]
    /\ pc' = [pc EXCEPT ![r] = "done"]
    /\ UNCHANGED <<cfg, mu, clients, sweep, raddr, ip, found, ok, w, run, rej, waited, streak, gap, shadow, libvars, srvvars>>

\* ------------------------------------------------------ the sweep goroutine
\* time.Sleep(time.Minute) returns, once its minute has passed.
SweepWake ==
    /\ sweep.pc = "sleep"
    /\ sweep.left = 0
    /\ sweep' = [sweep EXCEPT !.pc = "lock"]
    /\ UNCHANGED <<cfg, mu, clients, pc, raddr, ip, found, ok, w, nextCalls, run, rej, waited, streak, gap, shadow, libvars, srvvars>>

SweepLockNoWait ==
    /\ sweep.pc = "lock"
    /\ sweep' = [sweep EXCEPT !.pc = "scan", !.todo = DOMAIN clients, !.snap = clients]
    /\ UNCHANGED <<cfg, mu, clients, pc, raddr, ip, found, ok, w, nextCalls, run, rej, waited, streak, gap, shadow, libvars, srvvars>>

\* mu.Lock() of the sweep; the range will visit the entries now in the map,
\* which sweep.snap remembers as the pass found them.
SweepLock ==
    /\ sweep.pc = "lock"
    /\ mu = Free
    /\ mu' = BySweep
    /\ sweep' = [sweep EXCEPT !.pc = "scan", !.todo = DOMAIN clients, !.snap = clients]
    /\ UNCHANGED <<cfg, clients, pc, raddr, ip, found, ok, w, nextCalls, run, rej, waited, streak, gap, shadow, libvars, srvvars>>

StaleOrEqual(c) == c.lastSeen >= Staleness

StaleLate(c) == c.lastSeen > Staleness + 1

\* time.Since(client.lastSeen) > 3*time.Minute
Stale(c) == c.lastSeen > Staleness

\* One iteration of the range over clients, in any order; an entry that is
\* gone by the time the range reaches it is not visited.
SweepVisit(k) ==
    /\ sweep.pc = "scan"
    /\ k \in sweep.todo
    /\ sweep' = [sweep EXCEPT !.todo = @ \ {k}]
    /\ IF k \in DOMAIN clients /\ Stale(clients[k])
       THEN /\ clients' = MapDelete(clients, k)
            /\ run' = [run EXCEPT ![k] = Closed]
       ELSE UNCHANGED <<clients, run>>
    /\ UNCHANGED <<cfg, mu, pc, raddr, ip, found, ok, w, nextCalls, rej, waited, streak, gap, shadow, libvars, srvvars>>

\* The range is over: mu.Unlock(), and the next time.Sleep begins.
SweepUnlock ==
    /\ sweep.pc = "scan"
    /\ sweep.todo = {}
    /\ mu' = Free
    /\ sweep' = [sweep EXCEPT !.pc = "sleep", !.left = SweepInterval, !.snap = EmptyMap]
    /\ UNCHANGED <<cfg, clients, pc, raddr, ip, found, ok, w, nextCalls, run, rej, waited, streak, gap, shadow, libvars, srvvars>>

Next ==
    \/ Tick
    \/ \E r \in Reqs, a \in Addrs : Arrive(r, a)
    \/ \E r \in Reqs : Lock(r)
    \/ \E r \in Reqs : Lookup(r)
    \/ \E r \in Reqs : Create(r)
    \/ \E r \in Reqs : Seen(r)
    \/ \E r \in Reqs : TryAllow(r)
    \/ \E r \in Reqs : UnlockReject(r)
    \/ \E r \in Reqs : UnlockAdmit(r)
    \/ \E r \in Reqs : Respond(r)
    \/ \E r \in Reqs : ServeNext(r)
    \/ SweepWake
    \/ SweepLock
    \/ \E k \in Keys : SweepVisit(k)
    \/ SweepUnlock

Spec == Init /\ [][Next]_vars

\* The scheduling the runtime gives.  A goroutine that can run does run: the
\* steps of a handler inside its locked section and the steps of a sweep pass
\* are weakly fair.  sync.Mutex hands the lock to a waiter that has waited
\* long (starvation mode), so a goroutine blocked in mu.Lock() gets the lock
\* if it is free again and again: Lock and SweepLock are strongly fair.
\* Nothing is assumed of the arrival of requests, of the downstream handler
\* (next.ServeHTTP may never return), of the response write or of the clock.
Locked(r) ==
    Lookup(r) \/ Create(r) \/ Seen(r) \/ TryAllow(r) \/ UnlockReject(r) \/ UnlockAdmit(r)

SweepPass == (\E k \in Keys : SweepVisit(k)) \/ SweepUnlock

Fairness ==
    /\ \A r \in Reqs : SF_vars(Lock(r))
    /\ \A r \in Reqs : WF_vars(Locked(r))
    /\ SF_vars(SweepLock)
    /\ WF_vars(SweepPass)

\* The liveness claims are checked with the requests coming from two
\* addresses, a host:port and a string without a colon.
FairAddrs == { <<"a", ":", "p">>, <<"x">> }

NextFair ==
    \/ Tick
    \/ \E r \in Reqs, a \in FairAddrs : Arrive(r, a)
    \/ \E r \in Reqs : Lock(r)
    \/ \E r \in Reqs : Lookup(r)
    \/ \E r \in Reqs : Create(r)
    \/ \E r \in Reqs : Seen(r)
    \/ \E r \in Reqs : TryAllow(r)
    \/ \E r \in Reqs : UnlockReject(r)
    \/ \E r \in Reqs : UnlockAdmit(r)
    \/ \E r \in Reqs : Respond(r)
    \/ \E r \in Reqs : ServeNext(r)
    \/ SweepWake
    \/ SweepLock
    \/ \E k \in Keys : SweepVisit(k)
    \/ SweepUnlock

\* The clock when the sweep is on time: time.Sleep(time.Minute) returns when
\* its minute is over and the pass that follows takes far less than a minute,
\* so that no minute passes between the end of a sleep and the end of the
\* pass.
TickOnTime ==
    /\ sweep.pc = "sleep"
    /\ sweep.left > 0
    /\ Tick

NextOnTime ==
    \/ TickOnTime
    \/ \E r \in Reqs, a \in FairAddrs : Arrive(r, a)
    \/ \E r \in Reqs : Lock(r)
    \/ \E r \in Reqs : Lookup(r)
    \/ \E r \in Reqs : Create(r)
    \/ \E r \in Reqs : Seen(r)
    \/ \E r \in Reqs : TryAllow(r)
    \/ \E r \in Reqs : UnlockReject(r)
    \/ \E r \in Reqs : UnlockAdmit(r)
    \/ \E r \in Reqs : Respond(r)
    \/ \E r \in Reqs : ServeNext(r)
    \/ SweepWake
    \/ SweepLock
    \/ \E k \in Keys : SweepVisit(k)
    \/ SweepUnlock

\* The liveness claims are checked for one configuration of the limiter, in
\* which requests are both admitted and refused.
InitFair == Init /\ cfg.Active /\ cfg.Burst = 1 /\ cfg.Period = 1

FairSpec == InitFair /\ [][NextFair]_vars /\ Fairness

\* The sweep on time, fairly scheduled, with time passing and every
\* time.Sleep returning.
OnTimeSpec ==
    InitFair /\ [][NextOnTime]_vars /\ Fairness /\ WF_vars(TickOnTime) /\ WF_vars(SweepWake)

\* A limiter whose bucket takes longer to refill than an idle entry stays in
\* the map: one token every SlowPeriod minutes, a burst of 1.
SlowPeriod == Staleness + SweepInterval + 1

SlowCfg == [Active |-> TRUE, Burst |-> 1, Period |-> SlowPeriod]

InitSlow == cfg = SlowCfg /\ RateLimitStart /\ InitLib /\ InitServe

SlowSpec == InitSlow /\ [][Next]_vars

\* ============================================================ Part 2
\* The limiter at rest, for the specifications of the library functions.
RateLimitAtRest ==
    /\ InitRateLimit
    /\ cfg = [Active |-> FALSE, Burst |-> 0, Period |-> 1]

\* ----------------------------------------------------------- validator
\* A string is the tuple of its runes; a rune is written as the character
\* and takes the bytes of its UTF-8 encoding.
Runes == {"a", "e'"}

\* The number of bytes of the UTF-8 encoding of a rune: "a" is U+0061, one
\* byte, and "e'" stands for U+00E9, two bytes.
Utf8Len(c) == IF c = "a" THEN 1 ELSE 2

RECURSIVE ByteLen(_)
\* len(value): the length of a string in bytes.
ByteLen(value) ==
    IF value = <<>> THEN 0 ELSE Utf8Len(Head(value)) + ByteLen(Tail(value))

\* len([]rune(value)): the length of a string in runes.
RuneCount(value) == Len(value)

Strs == UNION { [1..n -> Runes] : n \in 0..MaxStrLen }

\* The keys and the messages of the caller.
ErrKeys == {"name", "email"}
ErrMessages == {"must be provided", "must be valid"}
Lens == 0..MaxStrLen

AddErrorOverwrite(e, key, message) == MapPut(e, key, message)

\* Validator.AddError
AddError(e, key, message) ==
    IF key \in DOMAIN e THEN e ELSE MapPut(e, key, message)

\* Validator.Check
Check(e, isOk, key, message) ==
    IF ~isOk THEN MapPut(e, key, message) ELSE e

\* ValidateStrLenByte
ValidateStrLenByte(e, value, key, min, max) ==
    IF ByteLen(value) < min
    THEN AddError(e, key, "Must be at least %d bytes long")
    ELSE IF ByteLen(value) > max
         THEN AddError(e, key, "Must not be more than %d bytes long")
         ELSE e

\* ValidateStrLenRune
ValidateStrLenRune(e, value, key, min, max) ==
    LET l == RuneCount(value)
    IN  IF l < min
        THEN AddError(e, key, "Must be at least %d characters long")
        ELSE IF ByteLen(value) > max
             THEN AddError(e, key, "Must not be more than %d characters long")
             ELSE e

\* validator.New()
CallNew ==
    /\ errors' = EmptyMap
    /\ last' = [op |-> "New"]
    /\ UNCHANGED <<rlvars, srvvars, resp, date>>

\* v.AddError(key, message)
CallAddError(key, message) ==
    /\ errors' = AddError(errors, key, message)
    /\ last' = [op |-> "AddError", key |-> key, message |-> message, before |-> errors]
    /\ UNCHANGED <<rlvars, srvvars, resp, date>>

\* v.Check(ok, key, message)
CallCheck(isOk, key, message) ==
    /\ errors' = Check(errors, isOk, key, message)
    /\ last' = [op |-> "Check", ok |-> isOk, key |-> key, message |-> message,
                before |-> errors]
    /\ UNCHANGED <<rlvars, srvvars, resp, date>>

\* ValidateStrLenByte(v, value, key, min, max)
CallValidateStrLenByte(value, key, min, max) ==
    /\ errors' = ValidateStrLenByte(errors, value, key, min, max)
    /\ last' = [op |-> "ValidateStrLenByte", value |-> value, key |-> key,
                min |-> min, max |-> max, before |-> errors]
    /\ UNCHANGED <<rlvars, srvvars, resp, date>>

\* ValidateStrLenRune(v, value, key, min, max)
CallValidateStrLenRune(value, key, min, max) ==
    /\ errors' = ValidateStrLenRune(errors, value, key, min, max)
    /\ last' = [op |-> "ValidateStrLenRune", value |-> value, key |-> key,
                min |-> min, max |-> max, before |-> errors]
    /\ UNCHANGED <<rlvars, srvvars, resp, date>>

\* Validator.Valid
Valid(e) == Cardinality(DOMAIN e) = 0

\* The characters of the email addresses of the caller: a letter, which
\* EmailRX takes in the local part and in the domain, and the "@".
EmailChars == {"a", "@"}

\* The values passed for an email address: the empty string, an address,
\* and two strings that are not addresses.
Emails == {<<>>, <<"a", "@", "a">>, <<"a">>, <<"@", "a">>}

\* Matches(value, EmailRX), for strings of EmailChars: a local part of one
\* letter or more, one "@", a domain of 1 to 63 letters.
MatchesEmailRX(value) ==
    \E i \in 1..Len(value) :
        /\ value[i] = "@"
        /\ i > 1 /\ i < Len(value) /\ Len(value) - i <= 63
        /\ \A j \in 1..Len(value) : j # i => value[j] \in EmailChars \ {"@"}

\* ValidateEmail
ValidateEmail(e, email) ==
    Check(Check(e, email # <<>>, "email", "must be provided"),
          MatchesEmailRX(email), "email", "must be a valid email address")

\* ValidateEmail(v, email)
CallValidateEmail(email) ==
    /\ errors' = ValidateEmail(errors, email)
    /\ last' = [op |-> "ValidateEmail", email |-> email, before |-> errors]
    /\ UNCHANGED <<rlvars, srvvars, resp, date>>

ValidatorInit == RateLimitAtRest /\ InitLib /\ InitServe

ValidatorNext ==
    \/ CallNew
    \/ \E key \in ErrKeys, message \in ErrMessages : CallAddError(key, message)
    \/ \E isOk \in BOOLEAN, key \in ErrKeys, message \in ErrMessages :
           CallCheck(isOk, key, message)
    \/ \E value \in Strs, key \in ErrKeys, min \in Lens, max \in Lens :
           CallValidateStrLenByte(value, key, min, max)
    \/ \E value \in Strs, key \in ErrKeys, min \in Lens, max \in Lens :
           CallValidateStrLenRune(value, key, min, max)
    \/ \E email \in Emails : CallValidateEmail(email)

ValidatorSpec == ValidatorInit /\ [][ValidatorNext]_vars

\* ------------------------------------------------ jsonz, RecoverPanic
\* The statuses the caller passes: the ends of the three ranges and their
\* neighbours.
Statuses == {199, 200, 299, 300, 399, 400, 499, 500, 599, 600}

\* The data the caller passes.
Datas == {[id |-> 7], Unmarshalable}

\* A message and a nil code of the caller of WriteJSendError.
ErrMessage == "it broke"
NilCode == [nil |-> TRUE]

\* The caller starts on the response of a new request.
CallNewRequest ==
    /\ resp' = NewResponse
    /\ last' = [op |-> "NewRequest"]
    /\ UNCHANGED <<rlvars, srvvars, errors, date>>

\* err := jsonz.WriteJSendSuccess(w, status, nil, data)
CallWriteJSendSuccess(status, data) ==
    /\ Len(resp.body) < MaxWrites
    /\ LET res == WriteJSendSuccess(resp, status, data)
       IN  /\ resp' = res.w
           /\ last' = [op |-> "WriteJSendSuccess", status |-> status, data |-> data,
                       before |-> resp, err |-> res.err]
    /\ UNCHANGED <<rlvars, srvvars, errors, date>>

\* err := jsonz.WriteJSendFail(w, status, nil, data)
CallWriteJSendFail(status, data) ==
    /\ Len(resp.body) < MaxWrites
    /\ LET res == WriteJSendFail(resp, status, data)
       IN  /\ resp' = res.w
           /\ last' = [op |-> "WriteJSendFail", status |-> status, data |-> data,
                       before |-> resp, err |-> res.err]
    /\ UNCHANGED <<rlvars, srvvars, errors, date>>

\* err := jsonz.WriteJSendError(w, status, nil, message, nil, &data)
CallWriteJSendError(status, data) ==
    /\ Len(resp.body) < MaxWrites
    /\ LET res == WriteJSendError(resp, status, ErrMessage, NilCode, data)
       IN  /\ resp' = res.w
           /\ last' = [op |-> "WriteJSendError", status |-> status, data |-> data,
                       before |-> resp, err |-> res.err]
    /\ UNCHANGED <<rlvars, srvvars, errors, date>>

\* The nil of Go: a nil interface value, a nil pointer, no panic recovered.
Nil == [nil |-> TRUE]

\* WebApp.errorResponse: [w, logged], logged being whether logError ran.
errorResponse(rw, status, message, code, data) ==
    LET res == WriteJSendError(rw, status, message, code, data)
    IN  IF res.err
        THEN [w |-> WriteHeader(res.w, StatusInternalServerError), logged |-> TRUE]
        ELSE [w |-> res.w, logged |-> FALSE]

ServerErrorMessage == "The server encountered a problem and could not process your request"

\* WebApp.ServerErrorResponse: logError, then errorResponse with status 500.
ServerErrorResponse(rw) ==
    [w |-> errorResponse(rw, StatusInternalServerError, ServerErrorMessage, Nil, Nil).w,
     logged |-> TRUE]

\* What a downstream handler does: it may write a response (a success
\* document with status 200) and it may panic, with a value or with nil,
\* after that.
Downstreams == [writes : BOOLEAN, panic : {"none", "value", "nil"}]

\* next.ServeHTTP(w, r), up to its return or its panic.
ServeHTTP(rw, nx) ==
    IF nx.writes THEN WriteJSendSuccess(rw, 200, [id |-> 7]).w ELSE rw

\* recover(): nil when nothing panics, else the value of the panic.  For
\* panic(nil) it is nil when built with Go before 1.21 (or run with
\* GODEBUG=panicnil=1) and a *runtime.PanicNilError otherwise: nilIsError
\* says which.
Recover(nx, nilIsError) ==
    IF nx.panic = "none" THEN Nil
    ELSE IF nx.panic = "value" THEN [value |-> "boom"]
    ELSE IF nilIsError THEN [value |-> "PanicNilError"] ELSE Nil

RecoverPanicNoRecover(rw, nx, nilIsError) ==
    [w |-> ServeHTTP(rw, nx), served |-> ServeHTTP(rw, nx), logged |-> FALSE,
     propagated |-> nx.panic # "none"]

\* The handler RecoverPanic returns: next.ServeHTTP, then the deferred
\* function.  served is the response as next left it; a panic that the
\* deferred recover() has taken does not propagate.
RecoverPanic(rw, nx, nilIsError) ==
    LET served == ServeHTTP(rw, nx)
        err    == Recover(nx, nilIsError)
    IN  IF err # Nil
        THEN LET h == [served EXCEPT !.header = MapPut(@, "Connection", "close")]
                 res == ServerErrorResponse(h)
             IN  [w |-> res.w, served |-> served, logged |-> res.logged,
                  propagated |-> FALSE]
        ELSE [w |-> served, served |-> served, logged |-> FALSE, propagated |-> FALSE]

\* app.RecoverPanic(next).ServeHTTP(w, r)
CallRecoverPanic(nx, nilIsError) ==
    /\ Len(resp.body) < MaxWrites
    /\ LET res == RecoverPanic(resp, nx, nilIsError)
       IN  /\ resp' = res.w
           /\ last' = [op |-> "RecoverPanic", next |-> nx, before |-> resp,
                       nilIsError |-> nilIsError, served |-> res.served,
                       logged |-> res.logged,
                       propagated |-> res.propagated]
    /\ UNCHANGED <<rlvars, srvvars, errors, date>>

ResponseInit == RateLimitAtRest /\ InitLib /\ InitServe

ResponseNext ==
    \/ CallNewRequest
    \/ \E status \in Statuses, data \in Datas : CallWriteJSendSuccess(status, data)
    \/ \E status \in Statuses, data \in Datas : CallWriteJSendFail(status, data)
    \/ \E status \in Statuses, data \in Datas : CallWriteJSendError(status, data)
    \/ \E nx \in Downstreams, nilIsError \in BOOLEAN : CallRecoverPanic(nx, nilIsError)

ResponseSpec == ResponseInit /\ [][ResponseNext]_vars

\* -------------------------------------------------------- jsonz.DateOnly
\* The times a DateOnly embeds: midnight of a day, or a second into it.
Times == [day : 0..MaxDay, sec : {0, 1}]

\* json.Marshal(t) of a time.Time: the bytes of its RFC 3339 text in quotes.
MarshalTime(t) ==
    [type |-> "[]byte", text |-> <<"\"", "day", t.day, "T", t.sec, "Z", "\"">>]

\* A value of dynamic type time.Time in an interface.
TimeValue(t) == [type |-> "time.Time", t |-> t]

\* DateOnly.Value: json.Marshal of a time.Time in the years 0 to 9999 gives
\* no error.
DateOnlyValue(d) == [val |-> MarshalTime(d), err |-> FALSE]

\* DateOnly.Scan on the receiver d: nil leaves it; value.(time.Time) panics
\* for a value of any other type.
DateOnlyScan(d, value) ==
    IF value = Nil THEN [d |-> d, err |-> FALSE, panicked |-> FALSE]
    ELSE IF value.type = "time.Time"
         THEN [d |-> value.t, err |-> FALSE, panicked |-> FALSE]
         ELSE [d |-> d, err |-> FALSE, panicked |-> TRUE]

\* What a driver or a caller may hand to Scan.
ScanValues ==
    {Nil} \cup { TimeValue(t) : t \in Times } \cup { MarshalTime(t) : t \in Times }

\* val, err := d.Value() of a DateOnly d
CallDateValue(d) ==
    /\ last' = [op |-> "Value", d |-> d, out |-> DateOnlyValue(d)]
    /\ UNCHANGED <<rlvars, srvvars, errors, resp, date>>

\* err := date.Scan(value)
CallDateScan(value) ==
    /\ LET res == DateOnlyScan(date, value)
       IN  /\ date' = res.d
           /\ last' = [op |-> "Scan", value |-> value, before |-> date,
                       err |-> res.err, panicked |-> res.panicked]
    /\ UNCHANGED <<rlvars, srvvars, errors, resp>>

\* val, _ := d.Value(); err := date.Scan(val)
CallDateScanValue(d) ==
    /\ LET res == DateOnlyScan(date, DateOnlyValue(d).val)
       IN  /\ date' = res.d
           /\ last' = [op |-> "ScanValue", d |-> d, before |-> date,
                       err |-> res.err, panicked |-> res.panicked]
    /\ UNCHANGED <<rlvars, srvvars, errors, resp>>

DateInit == RateLimitAtRest /\ InitLib /\ InitServe

DateNext ==
    \/ \E d \in Times : CallDateValue(d)
    \/ \E value \in ScanValues : CallDateScan(value)
    \/ \E d \in Times : CallDateScanValue(d)

DateSpec == DateInit /\ [][DateNext]_vars

\* ---------------------------------------- WebApp.Serve, WebApp.Background
\* The ways fn() of a task ends: it returns, it panics with a value, or it
\* calls panic(nil).
Ends == {"return", "panic", "nilpanic"}

\* What recover() returns in the deferred function of a task that ended
\* that way: the panic value, nil when there was no panic.  After panic(nil)
\* it is a *runtime.PanicNilError from Go 1.21 on (nilIsError) and nil before.
Recovered(how, nilIsError) ==
    IF how = "return" THEN Nil
    ELSE IF how = "panic" THEN [value |-> "boom"]
    ELSE IF nilIsError THEN [value |-> "PanicNilError"] ELSE Nil

\* The end of the goroutine of a task: fn() ends, the deferred function
\* calls recover() and logs the error it makes of a value that is not nil,
\* and the deferred app.Wg.Done() runs.
EndOfTask(task, how, nilIsError) ==
    [task EXCEPT !.st = "done", !.how = how, !.nilIsError = nilIsError,
                 !.logged = Recovered(how, nilIsError) # Nil,
                 !.propagated = FALSE,
                 !.dones = @ + 1]

\* A handler of the server may be running: the server has not been shut
\* down, or its Shutdown has not returned, or has given up waiting.
HandlersMayRun == srv # "drained"

BackgroundNoAdd(t) ==
    /\ tasks[t].st = "idle"
    /\ \A u \in Tasks : u < t => tasks[u].st # "idle"
    /\ HandlersMayRun \/ \E u \in Tasks : tasks[u].st = "running"
    /\ tasks' = [tasks EXCEPT ![t].st = "added"]
    /\ UNCHANGED <<rlvars, libvars, serve, sigpc, quit, srv, Wg, shutdownError>>

\* app.Background(fn), called by a handler or by a running task: app.Wg.Add(1)
\* and the go statement.
Background(t) ==
    /\ tasks[t].st = "idle"
    /\ \A u \in Tasks : u < t => tasks[u].st # "idle"
    /\ HandlersMayRun \/ \E u \in Tasks : tasks[u].st = "running"
    /\ Wg' = Wg + 1
    /\ tasks' = [tasks EXCEPT ![t].st = "added"]
    /\ UNCHANGED <<rlvars, libvars, serve, sigpc, quit, srv, shutdownError>>

\* The goroutine of task t starts: the defer statements, then fn().
TaskStart(t) ==
    /\ tasks[t].st = "added"
    /\ tasks' = [tasks EXCEPT ![t].st = "running"]
    /\ UNCHANGED <<rlvars, libvars, serve, sigpc, quit, srv, Wg, shutdownError>>

\* fn() of task t ends and the deferred functions run.
TaskEnd(t, how, nilIsError) ==
    /\ tasks[t].st = "running"
    /\ tasks' = [tasks EXCEPT ![t] = EndOfTask(@, how, nilIsError)]
    /\ Wg' = Wg - (tasks'[t].dones - tasks[t].dones)
    /\ UNCHANGED <<rlvars, libvars, serve, sigpc, quit, srv, shutdownError>>

\* signal.Notify(quit, syscall.SIGINT, syscall.SIGTERM)
SigNotify ==
    /\ sigpc = "notify"
    /\ sigpc' = "quit"
    /\ UNCHANGED <<rlvars, libvars, serve, quit, srv, Wg, tasks, shutdownError>>

\* The process gets SIGINT or SIGTERM: the signal goes into quit when quit
\* has room for it and is dropped otherwise.
Signal ==
    /\ sigpc # "notify"
    /\ quit = 0
    /\ quit' = 1
    /\ UNCHANGED <<rlvars, libvars, serve, sigpc, srv, Wg, tasks, shutdownError>>

\* s := <-quit
SigReceive ==
    /\ sigpc = "quit"
    /\ quit > 0
    /\ quit' = quit - 1
    /\ sigpc' = "shutdown"
    /\ UNCHANGED <<rlvars, libvars, serve, srv, Wg, tasks, shutdownError>>

\* srv.Shutdown(ctx) begins: the server stops listening, and ListenAndServe
\* returns ErrServerClosed from now on.
ShutdownBegin ==
    /\ sigpc = "shutdown"
    /\ srv' = "draining"
    /\ sigpc' = "draining"
    /\ UNCHANGED <<rlvars, libvars, serve, quit, Wg, tasks, shutdownError>>

\* if err != nil { shutdownError <- err }: the goroutine begins the send of
\* an error, and goes on to app.Wg.Wait() otherwise.
AfterShutdown(err) ==
    IF err # "nil"
    THEN [sigpc |-> "senderr", sends |-> shutdownError.sends + 1]
    ELSE [sigpc |-> "wait", sends |-> shutdownError.sends]

\* srv.Shutdown(ctx) returns: nil once every connection is idle, the error
\* of ctx when the 20 seconds are over first.
ShutdownEnd(err) ==
    /\ sigpc = "draining"
    /\ srv' = IF err = "nil" THEN "drained" ELSE "timedout"
    /\ sigpc' = AfterShutdown(err).sigpc
    /\ shutdownError' = [shutdownError EXCEPT !.sends = AfterShutdown(err).sends]
    /\ UNCHANGED <<rlvars, libvars, serve, quit, Wg, tasks>>

\* app.Wg.Wait() returns, the counter being zero, and the goroutine begins
\* shutdownError <- nil.
WgWait ==
    /\ sigpc = "wait"
    /\ Wg = 0
    /\ sigpc' = "sendnil"
    /\ shutdownError' = [shutdownError EXCEPT !.sends = @ + 1]
    /\ UNCHANGED <<rlvars, libvars, serve, quit, srv, Wg, tasks>>

\* srv.ListenAndServe() returns an error that is not ErrServerClosed (the
\* address is in use, Accept fails), and Serve returns it.
ListenFails ==
    /\ serve.pc = "listen"
    /\ srv = "serving"
    /\ serve' = [pc |-> "returned", ret |-> "errListen"]
    /\ UNCHANGED <<rlvars, libvars, sigpc, quit, srv, Wg, tasks, shutdownError>>

\* srv.ListenAndServe() returns ErrServerClosed, Shutdown having been called,
\* and Serve goes on to err = <-shutdownError.
ListenClosed ==
    /\ serve.pc = "listen"
    /\ srv # "serving"
    /\ serve' = [serve EXCEPT !.pc = "recv"]
    /\ UNCHANGED <<rlvars, libvars, sigpc, quit, srv, Wg, tasks, shutdownError>>

\* err = <-shutdownError meets a send of the signal-handling goroutine:
\* Serve returns the error, or nil; the goroutine goes on to app.Wg.Wait()
\* after the send of line 152 and ends after the send of line 158.
Receive ==
    /\ serve.pc = "recv"
    /\ sigpc \in {"senderr", "sendnil"}
    /\ serve' = [pc |-> "returned",
                 ret |-> IF sigpc = "senderr" THEN "errShutdown" ELSE "nil"]
    /\ sigpc' = IF sigpc = "senderr" THEN "wait" ELSE "end"
    /\ shutdownError' = [shutdownError EXCEPT !.recvs = @ + 1]
    /\ UNCHANGED <<rlvars, libvars, quit, srv, Wg, tasks>>

WebAppInit == RateLimitAtRest /\ InitLib /\ InitServe

WebAppNext ==
    \/ \E t \in Tasks : Background(t)
    \/ \E t \in Tasks : TaskStart(t)
    \/ \E t \in Tasks, how \in Ends, nilIsError \in BOOLEAN : TaskEnd(t, how, nilIsError)
    \/ SigNotify
    \/ Signal
    \/ SigReceive
    \/ ShutdownBegin
    \/ \E err \in {"nil", "deadline"} : ShutdownEnd(err)
    \/ WgWait
    \/ ListenFails
    \/ ListenClosed
    \/ Receive

WebAppSpec == WebAppInit /\ [][WebAppNext]_vars

\* ================================================================ claims
\* Request r has been through limiter.Allow().
Decided(r) == pc[r] \in {"unlockA", "unlockR", "next", "respond", "done"}

\* Request r is between mu.Lock() and mu.Unlock().
InLock(r) == pc[r] \in {"lookup", "create", "seen", "allow", "unlockA", "unlockR"}

\* RemoteAddr a holds no colon: it is no host:port.
Colonless(a) == ":" \notin Range(a)

\* C1: with the limiter active, of the requests of one identifier that reach
\* a new entry with no time passing, the first cfg.Burst are admitted, in the
\* order they take the lock, and every later one is refused.
C1_BurstThenReject ==
    \A k \in Keys : \A i \in 1..Len(run[k].outs) :
        run[k].outs[i] <=> (i <= cfg.Burst)

\* A burst of 2 is used up by two requests and the third is refused.
C1_Witness ==
    \E k \in Keys : cfg.Burst = 2 /\ run[k].outs = <<TRUE, TRUE, FALSE>>

\* C2: whatever the interleaving of K concurrent requests of one new
\* identifier with no time passing, exactly min(K, burst) of them are
\* admitted.
C2_ExactlyMinAdmitted ==
    \A k \in Keys :
        Cardinality({ i \in 1..Len(run[k].outs) : run[k].outs[i] })
            = Min(Len(run[k].outs), cfg.Burst)

\* Three requests of one new identifier are in flight at once with a burst of
\* 1: the first is admitted and still with its downstream handler, the second
\* has just been refused and holds the lock, the third waits for the lock.
C2_Witness ==
    /\ cfg.Burst = 1
    /\ \E k \in Keys :
        /\ run[k].outs = <<TRUE, FALSE>>
        /\ \A r \in Reqs : ip[r] = k
    /\ \E r1, r2, r3 \in Reqs :
        pc[r1] = "next" /\ pc[r2] = "unlockR" /\ pc[r3] = "lock"

\* C3: a step of the handler of a request of identifier A leaves the entry of
\* every other identifier B as it is: present or absent, its bucket, its
\* last-seen time.
C3_OtherClientsUntouched ==
    [][ \A r \in Reqs : pc'[r] # pc[r] =>
          \A k \in Keys \ {ip'[r]} :
              /\ (k \in DOMAIN clients') <=> (k \in DOMAIN clients)
              /\ k \in DOMAIN clients => clients'[k] = clients[k] ]_vars

\* A's bucket is used up (its last request was refused) and a request of B,
\* decided after that, has just been admitted.
C3_Witness ==
    \E a, b \in Keys, r \in Reqs :
        /\ a # b
        /\ run[a].outs = <<TRUE, FALSE>>
        /\ ip[r] = b /\ pc[r] = "unlockA"
        /\ \A q \in Reqs \ {r} : Decided(q) /\ ip[q] = a

\* C4: with cfg.Active false every request goes on to next and no other way,
\* nothing is written for it by the limiter, no request takes the mutex, and
\* the registry stays empty.
C4_InactivePassesAll ==
    ~cfg.Active =>
        /\ clients = EmptyMap
        /\ mu \in {Free, BySweep}
        /\ \A r \in Reqs :
            /\ pc[r] \in {"new", "next", "done"}
            /\ w[r] = NewResponse
            /\ nextCalls[r] = (IF pc[r] = "done" THEN 1 ELSE 0)

\* Inactive, and every request of a burst from one address has been served by
\* next.
C4_Witness ==
    /\ ~cfg.Active
    /\ \A r \in Reqs : pc[r] = "done" /\ raddr[r] = <<"x">> /\ nextCalls[r] = 1

\* C5: with the limiter active a request that has been handled was either
\* admitted, next was called once for it and the limiter wrote nothing, or
\* refused, next was not called and the response is status 429 with a JSend
\* fail body of error "Rate limit exceeded", a details text and the action
\* text; before that nothing has been written and next has not been called.
C5_AdmitXorReject429 ==
    cfg.Active =>
        \A r \in Reqs :
            IF pc[r] = "done"
            THEN \/ /\ ok[r]
                    /\ nextCalls[r] = 1
                    /\ w[r] = NewResponse
                 \/ /\ ~ok[r]
                    /\ nextCalls[r] = 0
                    /\ w[r].status = 429
                    /\ Len(w[r].body) = 1
                    /\ w[r].body[1].status = "fail"
                    /\ DOMAIN w[r].body[1].data = {"error", "details", "action"}
                    /\ w[r].body[1].data.error = "Rate limit exceeded"
                    /\ w[r].body[1].data.details # ""
                    /\ w[r].body[1].data.action =
                           "Wait a while and then try again, or send fewer requests"
            ELSE nextCalls[r] = 0 /\ w[r] = NewResponse

\* One request has been admitted and served and another refused with 429.
C5_Witness ==
    /\ cfg.Active
    /\ \E r, q \in Reqs :
        /\ pc[r] = "done" /\ ok[r] /\ nextCalls[r] = 1
        /\ pc[q] = "done" /\ ~ok[q] /\ w[q].status = 429

\* C6: while the downstream handler of a request runs, or its 429 response is
\* being written, the handler of that request does not hold the mutex.
C6_NoLockDuringIO ==
    \A r \in Reqs : pc[r] \in {"next", "respond"} => mu # ByReq(r)

\* A refused request is about to write its response and an admitted one is
\* with its downstream handler while a third request holds the mutex.
C6_Witness ==
    \E r, q, h \in Reqs :
        pc[r] = "respond" /\ pc[q] = "next" /\ InLock(h) /\ mu = ByReq(h)

\* C7: the lookup, the creation, the last-seen update and the Allow of a
\* request happen with the mutex held by that request, and the sweep's range
\* with the mutex held by the sweep; the entry the request found or created is
\* there when it sets lastSeen and calls Allow (no nil entry); and while a
\* request is in its locked section no step of another request or of the
\* sweep changes the registry.
C7_LockedStepAtomic ==
    /\ [](\A r \in Reqs :
            /\ InLock(r) => mu = ByReq(r)
            /\ pc[r] \in {"seen", "allow", "unlockA", "unlockR"} => ip[r] \in DOMAIN clients
            /\ pc[r] # "panic")
    /\ [](sweep.pc = "scan" => mu = BySweep)
    /\ [][ \A r \in Reqs : InLock(r) /\ pc'[r] = pc[r] => clients' = clients ]_vars

\* Two first requests of one identifier at once: one has created the entry
\* and is about to call Allow, the other waits for the mutex, and so does the
\* sweep.
C7_Witness ==
    \E r, q \in Reqs :
        /\ r # q /\ ip[r] = ip[q]
        /\ pc[r] = "allow" /\ ~found[r]
        /\ pc[q] = "lock"
        /\ sweep.pc = "lock"

\* C8: during a pass of the sweep, an entry the range has visited is gone if
\* and only if its last-seen time was more than 3 minutes old when the pass
\* took the mutex, every entry that is still there is as the pass found it,
\* and no entry has been added.
C8_SweepRemovesExactlyStale ==
    sweep.pc = "scan" =>
        /\ DOMAIN clients \subseteq DOMAIN sweep.snap
        /\ \A k \in DOMAIN sweep.snap :
            /\ k \in DOMAIN clients => clients[k] = sweep.snap[k]
            /\ k \notin sweep.todo =>
                 (k \notin DOMAIN clients <=> sweep.snap[k].lastSeen > Staleness)

\* The range of a pass is over: the entry last seen 4 minutes ago is gone and
\* the entry last seen 1 minute ago is still there.
C8_Witness ==
    /\ sweep.pc = "scan" /\ sweep.todo = {}
    /\ \E a, b \in DOMAIN sweep.snap :
        /\ sweep.snap[a].lastSeen = 4 /\ a \notin DOMAIN clients
        /\ sweep.snap[b].lastSeen = 1 /\ b \in DOMAIN clients

\* C9 as claimed: a request that calls Allow when the last Allow of its
\* identifier was a refusal 1/RPS or more ago is admitted.
C9_AdmittedAfterWait ==
    \A r \in Reqs : Decided(r) /\ waited[r] => ok[r]

\* C9 as amended: the same, when cfg.Burst is at least 1.
C9_AdmittedAfterWaitWithBurst ==
    cfg.Burst >= 1 => (\A r \in Reqs : Decided(r) /\ waited[r] => ok[r])

\* With a token every 2 minutes, a request is admitted by the entry that
\* refused the identifier's last request 2 minutes or more ago.
C9_Witness ==
    \E r \in Reqs :
        /\ cfg.Burst >= 1 /\ cfg.Period = 2
        /\ pc[r] = "unlockA" /\ waited[r] /\ found[r] /\ ok[r]

\* C10: the requests whose RemoteAddr is no host:port all use one key, and
\* between them they have at most one entry in the registry.
C10_OneFallbackKey ==
    /\ \A r, q \in Reqs :
        /\ cfg.Active
        /\ pc[r] # "new" /\ Colonless(raddr[r])
        /\ pc[q] # "new" /\ Colonless(raddr[q])
        => ip[r] = ip[q]
    /\ Cardinality({ k \in DOMAIN clients : Colonless(k) /\ k \in Addrs }) <= 1

\* C11: under the fair scheduling of the runtime, whatever the interleaving,
\* a request that is waiting for the mutex gets its decision and has released
\* the mutex some time later, and a sweep that is waiting for the mutex
\* finishes its pass; this needs no progress of any other request's
\* downstream handler or response write, which may never end.
C11_NoWaitingForever ==
    /\ \A r \in Reqs :
        (pc[r] = "lock") ~> (pc[r] \in {"next", "respond", "done"} /\ mu # ByReq(r))
    /\ (sweep.pc = "lock") ~> (sweep.pc = "sleep")

\* A request and the sweep both wait for the mutex, which a third request
\* holds, while the downstream handler of an admitted request is running.
C11_Witness ==
    \E r, h, q \in Reqs :
        /\ pc[r] = "lock" /\ sweep.pc = "lock"
        /\ mu = ByReq(h) /\ InLock(h)
        /\ pc[q] = "next" /\ ok[q]

\* No request of key k is between the creation of k's entry and the write of
\* its lastSeen.
Settled(k) == \A r \in Reqs : ip[r] = k => pc[r] \notin {"create", "seen"}

ProgramStep == pc' # pc \/ sweep.pc' # sweep.pc \/ sweep.todo' # sweep.todo

\* C13: while an entry stays in the registry its lastSeen never moves back:
\* a step of the program leaves the age of the time it holds as it is or
\* makes it smaller, and a tick of the clock makes it one tick older at most.
C13_LastSeenMonotonic ==
    [][ \A k \in DOMAIN clients \cap DOMAIN clients' :
          clients'[k].lastSeen <= clients[k].lastSeen + (IF ProgramStep THEN 0 ELSE 1) ]_vars

\* A request has found the entry of an earlier request of its identifier and
\* written lastSeen, minutes after the limiter of the entry last gave a
\* token.
C13_Witness ==
    \E r \in Reqs :
        /\ pc[r] = "allow" /\ found[r]
        /\ clients[ip[r]].lastSeen = 0
        /\ clients[ip[r]].limiter.last >= 2

\* C14: a step of a request's handler removes no key of the registry and
\* adds none but the request's own, and the only step that removes a key is
\* a step of the sweep's range, made with the mutex held by the sweep.
C14_OnlySweepDeletes ==
    [][ /\ \A r \in Reqs : pc'[r] # pc[r] =>
              /\ DOMAIN clients \subseteq DOMAIN clients'
              /\ DOMAIN clients' \subseteq DOMAIN clients \cup {ip'[r]}
        /\ ~(DOMAIN clients \subseteq DOMAIN clients') =>
              /\ sweep.pc = "scan" /\ mu = BySweep
              /\ sweep'.todo # sweep.todo
              /\ pc' = pc ]_vars

\* An admitted and a refused request of one identifier are over and have
\* left its entry in the registry, and a request of another identifier has
\* just added its own.
C14_Witness ==
    \E r, q, n \in Reqs :
        /\ pc[r] = "done" /\ ~ok[r] /\ cfg.Active
        /\ pc[q] = "done" /\ ok[q] /\ ip[q] = ip[r]
        /\ pc[n] = "seen" /\ ~found[n] /\ ip[n] # ip[r]
        /\ {ip[r], ip[n]} \subseteq DOMAIN clients

\* C15: AddError(key, message) leaves Errors as it is when it holds an entry
\* for key, and otherwise adds the entry key -> message and nothing else; no
\* other key changes either way.
C15_AddErrorKeepsFirst ==
    last.op = "AddError" =>
        IF last.key \in DOMAIN last.before
        THEN errors = last.before
        ELSE /\ DOMAIN errors = DOMAIN last.before \cup {last.key}
             /\ errors[last.key] = last.message
             /\ \A k \in DOMAIN last.before : errors[k] = last.before[k]

\* AddError was called with a new message for a key that had one, while
\* another key had a message too.
C15_Witness ==
    /\ last.op = "AddError"
    /\ last.key \in DOMAIN last.before
    /\ last.before[last.key] # last.message
    /\ DOMAIN last.before = ErrKeys

\* C16: ValidateStrLenRune, called for a key that has no error yet, records
\* an error under the key if and only if the number of runes of the value is
\* less than min or greater than max.
C16_RuneLenDecides ==
    last.op = "ValidateStrLenRune" /\ last.key \notin DOMAIN last.before =>
        (last.key \in DOMAIN errors
            <=> (Len(last.value) < last.min \/ Len(last.value) > last.max))

\* The range of statuses a WriteJSend function takes, and the status field of
\* its payload.
JSendOps == {"WriteJSendSuccess", "WriteJSendFail", "WriteJSendError"}

JSendLow(op) ==
    IF op = "WriteJSendSuccess" THEN 200 ELSE IF op = "WriteJSendFail" THEN 400 ELSE 500

JSendName(op) ==
    IF op = "WriteJSendSuccess" THEN "success"
    ELSE IF op = "WriteJSendFail" THEN "fail" ELSE "error"

JSendInRange == last.status >= JSendLow(last.op) /\ last.status <= JSendLow(last.op) + 99

\* The call has written one document, with the status field of its function.
JSendWritten ==
    /\ ~last.err
    /\ resp.header = MapPut(last.before.header, "Content-Type", "application/json")
    /\ Len(resp.body) = Len(last.before.body) + 1
    /\ SubSeq(resp.body, 1, Len(last.before.body)) = last.before.body
    /\ resp.body[Len(resp.body)].status = JSendName(last.op)
    /\ resp.body[Len(resp.body)].data = last.data

\* C17: a WriteJSend function called with a status outside its range returns
\* an error and leaves the response as it was, and called with a status
\* inside it writes that status and a payload with its status field.
C17_JSendStatusRanges ==
    last.op \in JSendOps =>
        IF JSendInRange
        THEN JSendWritten /\ resp.status = last.status
        ELSE last.err /\ resp = last.before

\* C17 as amended: outside the range, or with data that json cannot marshal,
\* the function returns an error and leaves the response as it was; else it
\* sets Content-Type, writes the payload with its status field, and the
\* response has the status passed unless a status had been written before,
\* which then stands.
C17_JSendStatusRangesMarshalled ==
    last.op \in JSendOps =>
        IF JSendInRange /\ last.data # Unmarshalable
        THEN /\ JSendWritten
             /\ resp.status = (IF last.before.status = 0 THEN last.status
                                                         ELSE last.before.status)
        ELSE last.err /\ resp = last.before

\* WriteJSendFail has refused status 500 on a response that holds a success
\* document written with status 299.
C17_Witness ==
    /\ last.op = "WriteJSendFail" /\ last.status = 500 /\ last.err
    /\ resp.status = 299
    /\ Len(resp.body) = 1 /\ resp.body[1].status = "success"

\* The deferred function has set Connection: close, logged, and written the
\* server-error document.
PanicHandled ==
    /\ "Connection" \in DOMAIN resp.header /\ resp.header["Connection"] = "close"
    /\ last.logged
    /\ Len(resp.body) = Len(last.served.body) + 1
    /\ SubSeq(resp.body, 1, Len(last.served.body)) = last.served.body
    /\ resp.body[Len(resp.body)].status = "error"

C19_ValueScanRoundTrip ==
    /\ last.op = "Value" =>
           ~last.out.err /\ last.out.val = [type |-> "time.Time", t |-> last.d]
    /\ last.op = "ScanValue" => ~last.panicked /\ ~last.err /\ date = last.d
    /\ last.op = "Scan" /\ last.value = Nil =>
           ~last.panicked /\ ~last.err /\ date = last.before

\* C20: the bucket of every entry holds between 0 and cfg.Burst tokens (a
\* token is cfg.Period units); an admission finds at least one token in the
\* bucket refilled up to cfg.Burst and no further, and takes that one; and
\* however long an identifier was idle, no more than cfg.Burst of its
\* requests are admitted with no time passing.
C20_TokensWithinBurst ==
    /\ [](\A k \in DOMAIN clients :
            /\ clients[k].limiter.tokens >= 0
            /\ clients[k].limiter.tokens <= cfg.Burst * cfg.Period)
    /\ [](\A k \in Keys : streak[k] <= cfg.Burst)
    /\ [][ \A r \in Reqs : pc[r] = "allow" /\ pc'[r] = "unlockA" =>
              LET had == Min(cfg.Burst * cfg.Period,
                             clients[ip[r]].limiter.tokens + clients[ip[r]].limiter.last)
              IN  /\ had >= cfg.Period
                  /\ clients'[ip[r]].limiter.tokens = had - cfg.Period ]_vars

\* An identifier whose bucket was full has had cfg.Burst = 2 requests
\* admitted and the next one refused, all with no time passing; the bucket
\* is empty.
C20_Witness ==
    \E r \in Reqs :
        /\ cfg.Burst = 2 /\ cfg.Period = 1
        /\ pc[r] = "unlockR" /\ found[r]
        /\ streak[ip[r]] = 2
        /\ clients[ip[r]].limiter.tokens = 0

\* C21: a handler that is at, or past, its call of Allow has set the
\* lastSeen of its identifier's entry to the current time, whether the
\* request is then admitted or refused; and an entry leaves the map only
\* when the latest request of its identifier arrived more than 3 minutes
\* ago, or arrived more than 3 minutes after the one before it and has not
\* set lastSeen yet: as long as the requests of an identifier follow one
\* another within 3 minutes its entry stays.
C21_EveryRequestRefreshes ==
    /\ [](\A r \in Reqs : pc[r] \in {"allow", "unlockA", "unlockR"} =>
             /\ ip[r] \in DOMAIN clients
             /\ clients[ip[r]].lastSeen = 0)
    /\ [][ \A k \in DOMAIN clients :
              k \notin DOMAIN clients' => gap[k].far \/ gap[k].age > Staleness ]_vars

\* With a burst of 0 every request is refused.  Two requests of one
\* identifier have been answered with 429, the later one arrived exactly 3
\* minutes ago, and a pass of the sweep has visited the entry and left it in
\* the map.
C21_Witness ==
    \E q, r \in Reqs :
        /\ cfg.Active /\ cfg.Burst = 0
        /\ q < r /\ ip[q] = ip[r]
        /\ pc[q] = "done" /\ w[q].status = StatusTooManyRequests
        /\ pc[r] = "done" /\ w[r].status = StatusTooManyRequests
        /\ gap[ip[r]] = [age |-> Staleness, far |-> FALSE]
        /\ sweep.pc = "scan"
        /\ ip[r] \in DOMAIN sweep.snap /\ ip[r] \notin sweep.todo
        /\ ip[r] \in DOMAIN clients

\* C22: an identifier is never granted more than burst + ratePerSecond * T
\* admissions in an interval of length T, which is to say that a request is
\* admitted only if the limiter the identifier would have, had no entry ever
\* been removed from the map, admits it too.
C22_NoMoreThanUnswept ==
    [][ \A r \in Reqs :
          pc[r] = "allow" /\ pc'[r] = "unlockA" => Allow(cfg, shadow[ip[r]]).ok ]_vars

\* No task given to Background is still to start or running.
AllTasksFinished == \A t \in Tasks : tasks[t].st \notin {"added", "running"}

\* The signal-handling goroutine has received a signal from quit.
SignalReceived == sigpc \notin {"notify", "quit"}

\* C23: once a signal has been received Serve has not returned, other than
\* with the error of ListenAndServe, unless every task given to Background
\* has finished; Serve has returned nil only if
\* srv.Shutdown has returned nil and the counter of app.Wg is zero; and when
\* Serve returns straight from srv.ListenAndServe it returns the error of
\* ListenAndServe, which is not ErrServerClosed.
C23_ServeWaitsForTasks ==
    /\ [](SignalReceived /\ serve.pc = "returned" /\ serve.ret # "errListen" =>
             AllTasksFinished)
    /\ [](serve.ret = "nil" => srv = "drained" /\ Wg = 0)
    /\ [][ serve.pc = "listen" /\ serve'.pc = "returned" =>
              serve'.ret = "errListen" /\ srv = "serving" ]_vars

\* C24: the signal-handling goroutine begins at most one send on
\* shutdownError, and it is not at a send when Serve has returned: no
\* receive will ever meet that send.
C24_OneSendEachReceived ==
    /\ shutdownError.sends <= 1
    /\ ~(serve.pc = "returned" /\ sigpc \in {"senderr", "sendnil"})

\* The tasks that Wg.Add(1) has counted and Wg.Done() has not.
Counted == {t \in Tasks : tasks[t].st \in {"added", "running"}}

\* C25 as claimed: the counter of app.Wg is the number of tasks given to
\* Background that have not ended, so it is never negative and is zero when
\* all have ended; a task that has ended has called Wg.Done() once, its panic
\* if any has not propagated, and its panic if any has been logged.
C25_WgCountsTasks ==
    /\ Wg >= 0
    /\ Wg = Cardinality(Counted)
    /\ \A t \in Tasks :
        /\ tasks[t].dones = IF tasks[t].st = "done" THEN 1 ELSE 0
        /\ ~tasks[t].propagated
        /\ tasks[t].st = "done" /\ tasks[t].how # "return" => tasks[t].logged

\* C25 as amended: the same, but the panic is logged exactly when recover()
\* returns a value that is not nil: after a panic with a value, and after
\* panic(nil) where the runtime makes a *runtime.PanicNilError of it.
C25_WgCountsTasksLogsValues ==
    /\ Wg >= 0
    /\ Wg = Cardinality(Counted)
    /\ \A t \in Tasks :
        /\ tasks[t].dones = IF tasks[t].st = "done" THEN 1 ELSE 0
        /\ ~tasks[t].propagated
        /\ tasks[t].logged <=>
              /\ tasks[t].st = "done"
              /\ \/ tasks[t].how = "panic"
                 \/ tasks[t].how = "nilpanic" /\ tasks[t].nilIsError

\* Two tasks have ended, one by returning and one by a panic that was
\* logged, and the counter is back at zero.
C25_Witness ==
    /\ Wg = 0
    /\ \E t, u \in Tasks :
        /\ tasks[t].st = "done" /\ tasks[t].how = "return" /\ tasks[t].dones = 1
        /\ tasks[u].st = "done" /\ tasks[u].how = "panic" /\ tasks[u].logged
        /\ tasks[u].dones = 1

\* C26: a failing Check or AddError for a key that has a message leaves that
\* message as it is, and Valid() is false after a failing call; ValidateEmail
\* of the empty string on a Validator without a message for email leaves
\* "must be provided" under email.
C26_FirstMessageStays ==
    /\ last.op = "AddError" \/ (last.op = "Check" /\ ~last.ok) =>
          /\ ~Valid(errors)
          /\ last.key \in DOMAIN last.before => errors[last.key] = last.before[last.key]
    /\ last.op = "ValidateEmail" /\ last.email = <<>> /\ "email" \notin DOMAIN last.before =>
          "email" \in DOMAIN errors /\ errors["email"] = "must be provided"

====
